---- MODULE Spec2Model ----
\* A model of exchange/bidder.go: bidderAdapter.requestBid, the dispatch tasks
\* running doRequest, the detached doTimeoutNotification tasks and the native
\* markup enrichment (addNativeTypes, setAssetTypes).
EXTENDS Integers, Sequences, FiniteSets, TLC

\* ------------------------------------------------------------------ bounds
\* Most outbound requests MakeRequests returns.
MaxReq == 2
\* Most errors MakeRequests returns, and most errors one MakeBids call returns.
MaxPluginErrs == 1
\* Most entries in one bidResponse.Bids.
MaxBids == 1
\* Most assets in the native request that setAssetTypes, taken alone, is given.
MaxAssets == 2

\* ------------------------------------------------------- pointers, options
\* A nil pointer is the empty set, a non-nil one the singleton of its target.
Nil == {}
Ptr(v) == {v}
Deref(p) == CHOOSE v \in p : TRUE

\* ------------------------------------------------------------------ errors
\* An error value: its kind, the outbound request it arose for (0: none), a
\* number in its message (a status code, an asset id; else 0) and a currency
\* code in its message (else "").
Err(kind, src, info) == [kind |-> kind, src |-> src, info |-> info, cur |-> ""]

RECURSIVE PluginErrs(_, _, _)
\* k errors returned by a plugin call for outbound request src.
PluginErrs(kind, src, k) ==
  IF k = 0 THEN <<>> ELSE Append(PluginErrs(kind, src, k - 1), Err(kind, src, k))

\* ------------------------------------------------------------- currencies
defaultCurrency == "USD"

\* The rate tables a Conversions collaborator may hold: a pair (from, to) in
\* the domain has a rate, any other pair makes GetRate fail.
RateTables ==
  { (<<"USD", "USD">> :> 1) @@ (<<"EUR", "EUR">> :> 1) @@ (<<"GBP", "GBP">> :> 1)
      @@ (<<"EUR", "USD">> :> 2) @@ (<<"GBP", "USD">> :> 3) }

\* conversions.GetRate(from, to): (rate, nil) or (0, error).
GetRate(conv, from, to) ==
  IF <<from, to>> \in DOMAIN conv
    THEN [rate |-> conv[<<from, to>>], err |-> Nil]
    ELSE [rate |-> 0, err |-> Ptr([Err("Conversion", 0, 0) EXCEPT !.cur = to])]

RECURSIVE RateLoopBidderCurrency(_, _, _, _)
\* RateLoop as it would be if the seat-bid took the bidder's currency.
RateLoopBidderCurrency(conv, from, cur, st) ==
  IF cur = <<>> THEN st
  ELSE IF GetRate(conv, from, Head(cur)).err = Nil
    THEN [conversionRate |-> GetRate(conv, from, Head(cur)).rate, err |-> Nil,
          currency |-> from]
  ELSE RateLoopBidderCurrency(conv, from, Tail(cur),
                              [conversionRate |-> 0,
                               err |-> GetRate(conv, from, Head(cur)).err,
                               currency |-> st.currency])

RECURSIVE RateLoopNoBreak(_, _, _, _)
\* RateLoop as it would be if the loop went on after a rate was found.
RateLoopNoBreak(conv, from, cur, st) ==
  IF cur = <<>> THEN st
  ELSE IF GetRate(conv, from, Head(cur)).err = Nil
    THEN RateLoopNoBreak(conv, from, Tail(cur),
                         [conversionRate |-> GetRate(conv, from, Head(cur)).rate,
                          err |-> Nil, currency |-> Head(cur)])
  ELSE RateLoopNoBreak(conv, from, Tail(cur),
                       [conversionRate |-> 0,
                        err |-> GetRate(conv, from, Head(cur)).err,
                        currency |-> st.currency])

RECURSIVE RateLoop(_, _, _, _)
\* The loop over request.Cur: st holds conversionRate, err and seatBid.currency.
RateLoop(conv, from, cur, st) ==
  IF cur = <<>> THEN st
  ELSE LET r == GetRate(conv, from, Head(cur))
       IN IF r.err = Nil
            THEN [conversionRate |-> r.rate, err |-> Nil, currency |-> Head(cur)]
            ELSE RateLoop(conv, from, Tail(cur),
                          [conversionRate |-> r.rate, err |-> r.err,
                           currency |-> st.currency])

\* ---------------------------------------------------------- native markup
\* bid.AdM, by what json.Unmarshal into *nativeResponse.Response makes of it:
\* parse "err" (not a native payload), "null" (the JSON null: no error and a
\* nil *Response) or "ok" (a Response holding assets). canon tells the text
\* json.Marshal writes from the text the bidder sent.
Markup(parse, canon, assets) == [parse |-> parse, canon |-> canon, assets |-> assets]

\* json.Marshal(*nativeMarkup)
Marshal(assets) == Markup("ok", TRUE, assets)

\* An asset of a native response or request: Img and Data are pointers, held
\* here by the Type they carry.
Asset(id, img, data) == [ID |-> id, Img |-> img, Data |-> data]

RECURSIVE getAssetByID(_, _)
getAssetByID(id, assets) ==
  IF assets = <<>>
    THEN [asset |-> Asset(0, Nil, Nil), err |-> Ptr(Err("UnableToFindAsset", 0, id))]
  ELSE IF id = Head(assets).ID
    THEN [asset |-> Head(assets), err |-> Nil]
  ELSE getAssetByID(id, Tail(assets))

\* The Img half of setAssetTypes, given what getAssetByID found: the asset
\* as it leaves it, and the error it returns with.
setImgType(asset, found) ==
  IF found.err = Nil
    THEN IF found.asset.Img # Nil
           THEN [asset |-> IF Deref(found.asset.Img) # 0
                             THEN [asset EXCEPT !.Img = found.asset.Img]
                             ELSE asset,
                 err |-> Nil]
           ELSE [asset |-> asset,
                 err |-> Ptr(Err("ImageAssetNotInRequest", 0, asset.ID))]
    ELSE [asset |-> asset, err |-> found.err]

\* The Data half of setAssetTypes, given what getAssetByID found.
setDataType(asset, found) ==
  IF found.err = Nil
    THEN IF found.asset.Data # Nil
           THEN [asset |-> IF Deref(found.asset.Data) # 0
                             THEN [asset EXCEPT !.Data = found.asset.Data]
                             ELSE asset,
                 err |-> Nil]
           ELSE [asset |-> asset,
                 err |-> Ptr(Err("DataAssetNotInRequest", 0, asset.ID))]
    ELSE [asset |-> asset, err |-> found.err]

\* setAssetTypes from its Data half on, img being what the Img half left:
\* the Data half runs only when the Img half returned no error.
setAssetTypesData(img, reqAssets) ==
  IF img.err # Nil THEN img
  ELSE IF img.asset.Data # Nil
    THEN setDataType(img.asset, getAssetByID(img.asset.ID, reqAssets))
  ELSE img

setAssetTypes(asset, reqAssets) ==
  setAssetTypesData(IF asset.Img # Nil
                      THEN setImgType(asset, getAssetByID(asset.ID, reqAssets))
                      ELSE [asset |-> asset, err |-> Nil],
                    reqAssets)

RECURSIVE getNativeImpByImpID(_, _)
getNativeImpByImpID(impID, imps) ==
  IF imps = <<>>
    THEN [native |-> Nil, err |-> Ptr(Err("CouldNotFindNativeImp", 0, impID))]
  ELSE IF Head(imps).ID = impID /\ Head(imps).Native # Nil
    THEN [native |-> Head(imps).Native, err |-> Nil]
  ELSE getNativeImpByImpID(impID, Tail(imps))

\* One iteration's outcome put before the outcome of the iterations after it.
ConsAsset(one, rest) ==
  [assets |-> <<one.asset>> \o rest.assets,
   errs |-> (IF one.err = Nil THEN <<>> ELSE <<Deref(one.err)>>) \o rest.errs]

RECURSIVE SetAllAssetTypes(_, _)
\* The loop over nativeMarkup.Assets: the assets after it and its errors.
SetAllAssetTypes(assets, reqAssets) ==
  IF assets = <<>> THEN [assets |-> <<>>, errs |-> <<>>]
  ELSE ConsAsset(setAssetTypes(Head(assets), reqAssets),
                 SetAllAssetTypes(Tail(assets), reqAssets))

\* Line 232: what addNativeTypes returns after the loop over the assets.
EnrichedMarkup(parseErrs, set) ==
  [panic |-> FALSE, markup |-> Ptr(set.assets), errs |-> parseErrs \o set.errs]

\* Lines 221-232 of addNativeTypes: the impression's native request is
\* parsed (a failure leaves it without assets and adds its error) and every
\* asset of the markup is given its types.
addTypesFromPayload(assets, payload) ==
  IF payload.parse = "ok"
    THEN EnrichedMarkup(<<>>, SetAllAssetTypes(assets, payload.assets))
    ELSE EnrichedMarkup(<<Err("NativeRequestParse", 0, 0)>>,
                        SetAllAssetTypes(assets, <<>>))

\* Lines 215-232 of addNativeTypes, imp being what getNativeImpByImpID found.
addTypesFromImp(assets, imp) ==
  IF imp.err # Nil
    THEN [panic |-> FALSE, markup |-> Nil, errs |-> <<Deref(imp.err)>>]
    ELSE addTypesFromPayload(assets, Deref(imp.native))

\* addNativeTypes(bid, request): panic when it dereferences a nil pointer (a
\* nil bid, or the nil *Response that the JSON null unmarshals to), else the
\* markup it returns (nil or the enriched assets) and its errors.
addNativeTypes(bid, req) ==
  IF bid = Nil THEN [panic |-> TRUE, markup |-> Nil, errs |-> <<>>]
  ELSE IF Deref(bid).AdM.parse = "err"
    THEN [panic |-> FALSE, markup |-> Nil, errs |-> <<>>]
  ELSE IF Deref(bid).AdM.parse = "null"
    THEN [panic |-> TRUE, markup |-> Nil, errs |-> <<>>]
  ELSE IF Len(Deref(bid).AdM.assets) = 0
    THEN [panic |-> FALSE, markup |-> Nil, errs |-> <<>>]
  ELSE addTypesFromImp(Deref(bid).AdM.assets,
                       getNativeImpByImpID(Deref(bid).ImpID, req.Imp))

\* ------------------------------------------------------- the plugin's bids
HtmlAdM == Markup("err", FALSE, <<>>)
NullAdM == Markup("null", FALSE, <<>>)
\* A native payload of two image assets, the second with an ID that the
\* impression's native request lacks.
NativeAdM == Markup("ok", FALSE, <<Asset(1, Ptr(0), Nil), Asset(2, Ptr(0), Nil)>>)

\* An openrtb.Bid: the fields requestBid and addNativeTypes read or write.
Bid(price, impID, adm) == [Price |-> price, ImpID |-> impID, AdM |-> adm]

\* The entries a bidResponse.Bids may hold (an adapters.TypedBid; BidVideo and
\* DealPriority are copied through unread and are left out).
TypedBids ==
  { [Bid |-> Nil, BidType |-> "banner"],
    [Bid |-> Nil, BidType |-> "native"],
    [Bid |-> Ptr(Bid(5, "imp1", HtmlAdM)), BidType |-> "banner"],
    [Bid |-> Ptr(Bid(7, "imp1", NativeAdM)), BidType |-> "native"] }

RECURSIVE SeqsUpTo(_, _)
\* The sequences over S of length at most n.
SeqsUpTo(S, n) ==
  IF n = 0 THEN { <<>> }
  ELSE LET shorter == SeqsUpTo(S, n - 1)
       IN shorter \cup { Append(q, x) : q \in shorter, x \in S }

\* The currencies a bidder reports ("": none).
BidderCurrencies == { "", "EUR", "GBP" }

\* What MakeBids may return as bidResponse, when not nil.
BidderResponses ==
  [Currency : BidderCurrencies, Bids : SeqsUpTo(TypedBids, MaxBids)]

\* ---------------------------------------------------------------- request
\* The native request payload of an impression (imp.Native.Request).
NativePayload(parse, assets) == [parse |-> parse, assets |-> assets]

\* request.Imp
ImpLists ==
  { <<[ID |-> "imp1", Native |-> Ptr(NativePayload("ok", <<Asset(1, Ptr(3), Nil)>>))]>> }

\* request.Cur
CurLists == { <<>>, <<"GBP", "USD">>, <<"EUR", "GBP">> }

\* request.Test
TestValues == { 0, 1, 2 }

BidAdjustments == { 1, 2 }

\* The HTTP status codes a bidder's server answers with.
StatusCodes == { 199, 200, 400 }

\* ------------------------------------------------------------------ state
VARIABLES
  request,          \* the openrtb.BidRequest: Test, App, Cur, Imp
  bidAdjustment,    \* requestBid's bidAdjustment
  conversions,      \* the rate table behind conversions.GetRate
  timeoutBidder,    \* TRUE when bidder.Bidder is an adapters.TimeoutBidder
  ctx,              \* "live", or how it ended: "deadline", "canceled"
  pc,               \* where requestBid is
  reqData,          \* len(reqData): the outbound requests are 1..reqData
  errs,             \* requestBid's errs
  seatBid,          \* requestBid's seatBid pointer
  responseChannel,  \* the buffered channel's contents, oldest first
  task,             \* task[i]: where the doRequest call for reqData[i] is
  notifier,         \* notifier[i]: the doTimeoutNotification task for reqData[i]
  madeErrs,         \* history: the errors MakeRequests returned
  collected,        \* history: the call results the collector received, in order
  parsed,           \* history: the MakeBids calls: the request, what it returned,
                    \*   the errors the result's handling appended in all
  origin,           \* history: for each entry of seatBid.bids, where it came from
  ctxFirst,         \* history: TRUE when ctx ended before any response was read
  assetCall         \* a setAssetTypes call taken alone: its arguments, its outcome

vars == <<request, bidAdjustment, conversions, timeoutBidder, ctx, pc, reqData,
          errs, seatBid, responseChannel, task, notifier, madeErrs, collected,
          parsed, origin, ctxFirst, assetCall>>

inputs == <<request, bidAdjustment, conversions, timeoutBidder>>

Reqs == 1 .. MaxReq

\* A doTimeoutNotification task: where it is ("none" when it was not
\* started), what MakeTimeoutNotification gave it (toReq and len(errL)), the
\* HTTP calls it made and how its call ended ("" for none).
NoNotifier == [at |-> "none", toReq |-> Nil, errL |-> 0, calls |-> 0, end |-> ""]

\* No setAssetTypes call is looked at alone.
NoAssetCall == [at |-> "none", asset |-> Asset(0, Nil, Nil), payload |-> <<>>,
                out |-> Asset(0, Nil, Nil), err |-> Nil]

Init ==
  /\ request \in [Test : TestValues, App : BOOLEAN, Cur : CurLists, Imp : ImpLists]
  /\ bidAdjustment \in BidAdjustments
  /\ conversions \in RateTables
  /\ timeoutBidder \in BOOLEAN
  /\ ctx = "live"
  /\ pc = "start"
  /\ reqData = 0
  /\ errs = <<>>
  /\ seatBid = Nil
  /\ responseChannel = <<>>
  /\ task = [i \in Reqs |-> "idle"]
  /\ notifier = [i \in Reqs |-> NoNotifier]
  /\ madeErrs = <<>>
  /\ collected = <<>>
  /\ parsed = <<>>
  /\ origin = <<>>
  /\ ctxFirst = FALSE
  /\ assetCall = NoAssetCall

\* ------------------------------------------------------------- requestBid
\* ShortCircuits as it would be if errors from MakeRequests ended the run too.
ShortCircuitsOnErrs(n, pluginErrs) == n = 0 \/ Len(pluginErrs) > 0

\* Line 100: whether requestBid returns before any dispatch.
ShortCircuits(n, pluginErrs) == n = 0

\* NoRequestErrs as it would be if the error were added in every case.
NoRequestErrsAlways(pluginErrs) ==
  Append(pluginErrs, Err("FailedToRequestBids", 0, 0))

\* Lines 100-106: what requestBid returns as errs when reqData is empty.
NoRequestErrs(pluginErrs) ==
  IF Len(pluginErrs) = 0
    THEN Append(pluginErrs, Err("FailedToRequestBids", 0, 0))
    ELSE pluginErrs

\* Lines 98-110: MakeRequests, the return of (nil, errs) when it gave no
\* request, else the making of the channel.
MakeRequests ==
  /\ pc = "start"
  /\ \E n \in 0 .. MaxReq, k \in 0 .. MaxPluginErrs :
       /\ reqData' = n
       /\ madeErrs' = PluginErrs("MakeRequests", 0, k)
       /\ \/ /\ ShortCircuits(n, PluginErrs("MakeRequests", 0, k))
             /\ errs' = NoRequestErrs(PluginErrs("MakeRequests", 0, k))
             /\ pc' = "done"
          \/ /\ ~ShortCircuits(n, PluginErrs("MakeRequests", 0, k))
             /\ errs' = PluginErrs("MakeRequests", 0, k)
             /\ pc' = "dispatch"
  /\ UNCHANGED <<inputs, assetCall, ctx, seatBid, responseChannel, task, notifier,
                 collected, parsed, origin, ctxFirst>>

\* Line 112: the only request is run by the calling task itself.
CallDoRequest ==
  /\ pc = "dispatch"
  /\ reqData = 1
  /\ task' = [task EXCEPT ![1] = "new"]
  /\ pc' = "sync"
  /\ UNCHANGED <<inputs, assetCall, ctx, reqData, errs, seatBid, responseChannel, notifier,
                 madeErrs, collected, parsed, origin, ctxFirst>>

\* Lines 114-118: one iteration of the loop that starts a task per request.
GoDoRequest ==
  /\ pc = "dispatch"
  /\ reqData > 1
  /\ \E i \in 1 .. reqData :
       /\ task[i] = "idle"
       /\ \A j \in 1 .. (i - 1) : task[j] # "idle"
       /\ task' = [task EXCEPT ![i] = "new"]
  /\ UNCHANGED <<inputs, assetCall, ctx, pc, reqData, errs, seatBid, responseChannel,
                 notifier, madeErrs, collected, parsed, origin, ctxFirst>>

\* Lines 121-126: the seat-bid is made once the calling task is past the
\* dispatch (its own doRequest has returned and sent, or the loop has ended).
NewSeatBid ==
  /\ \/ pc = "sync" /\ task[1] = "sent"
     \/ pc = "dispatch" /\ reqData > 1 /\ \A i \in 1 .. reqData : task[i] # "idle"
  /\ seatBid' = Ptr([bids |-> <<>>, currency |-> defaultCurrency, httpCalls |-> <<>>])
  /\ pc' = "collect"
  /\ UNCHANGED <<inputs, assetCall, ctx, reqData, errs, responseChannel, task, notifier,
                 madeErrs, collected, parsed, origin, ctxFirst>>

\* --------------------------------------------------------------- doRequest
\* An httpCallInfo: request is the outbound request's index (0: nil).
CallInfo(req, response, err) == [request |-> req, response |-> response, err |-> err]

\* Capacity as it would be if the channel were made with room for one value.
CapacityOne(n) == 1

\* Line 110: the capacity responseChannel is made with, n being len(reqData).
Capacity(n) == n

\* The send on responseChannel that ends a doRequest call: possible only
\* while the channel has room.
Publish(i, info) ==
  /\ Len(responseChannel) < Capacity(reqData)
  /\ responseChannel' = Append(responseChannel, info)
  /\ task' = [task EXCEPT ![i] = "sent"]

\* Lines 306-313: http.NewRequest fails, or the call goes on to the send.
NewRequest(i) ==
  /\ task[i] = "new"
  /\ \/ Publish(i, CallInfo(i, Nil, Ptr(Err("NewRequest", i, 0))))
     \/ /\ task' = [task EXCEPT ![i] = "do"]
        /\ UNCHANGED responseChannel
  /\ UNCHANGED <<inputs, assetCall, ctx, pc, reqData, errs, seatBid, notifier, madeErrs, collected,
                 parsed, origin, ctxFirst>>

\* Lines 316-318: the error doRequest keeps when ctxhttp.Do fails: ctx.Err()
\* when ctx has ended (wrapped as a Timeout when that is DeadlineExceeded),
\* else the transport's error.
DoError(i, c) ==
  IF c = "deadline" THEN Err("Timeout", i, 0)
  ELSE IF c = "canceled" THEN Err("Canceled", i, 0)
  ELSE Err("Transport", i, 0)

\* SpawnsNotifier as it would be if any end of ctx started a notification.
SpawnsNotifierAnyEnd(c, tb) == c # "live" /\ tb

\* Lines 317-325: whether the failed send starts a doTimeoutNotification.
SpawnsNotifier(c, tb) == c = "deadline" /\ tb

\* Aborted as it would be if the call were made without ctx.
AbortedNever(c) == FALSE

\* Line 315: the call is made under ctx (ctxhttp.Do binds the request to
\* it), so both the send and the read of the body are cut short once ctx
\* has ended.
Aborted(c) == c # "live"

\* Lines 315-332: ctxhttp.Do returns. Once ctx has ended it returns ctx's
\* error; before, the transport's error or the response's head.
Do(i) ==
  /\ task[i] = "do"
  /\ \/ /\ Aborted(ctx)
        /\ Publish(i, CallInfo(i, Nil, Ptr(DoError(i, ctx))))
        /\ notifier' = IF SpawnsNotifier(ctx, timeoutBidder)
                         THEN [notifier EXCEPT ![i].at = "spawned"]
                         ELSE notifier
     \/ /\ ~Aborted(ctx)
        /\ Publish(i, CallInfo(i, Nil, Ptr(DoError(i, "live"))))
        /\ UNCHANGED notifier
     \/ /\ ~Aborted(ctx)
        /\ task' = [task EXCEPT ![i] = "read"]
        /\ UNCHANGED <<responseChannel, notifier>>
  /\ UNCHANGED <<inputs, assetCall, ctx, pc, reqData, errs, seatBid, madeErrs, collected, parsed,
                 origin, ctxFirst>>

\* StatusErr as it would be if only the statuses from 400 on were errors.
StatusErrFrom400(i, status) ==
  IF status >= 400
    THEN Ptr(Err("BadServerResponse", i, status))
    ELSE Nil

\* Lines 343-347: the error a fully read response is returned with.
StatusErr(i, status) ==
  IF status < 200 \/ status >= 400
    THEN Ptr(Err("BadServerResponse", i, status))
    ELSE Nil

\* Lines 334-357: ioutil.ReadAll returns. The read fails once ctx has ended,
\* and may fail before; its error is returned as it is. A body read to its
\* end is returned with the response's status.
ReadAll(i) ==
  /\ task[i] = "read"
  /\ \/ /\ Aborted(ctx)
        /\ Publish(i, CallInfo(i, Nil, Ptr(Err("ReadBody", i, 0))))
     \/ /\ ~Aborted(ctx)
        /\ Publish(i, CallInfo(i, Nil, Ptr(Err("ReadBody", i, 0))))
     \/ /\ ~Aborted(ctx)
        /\ \E status \in StatusCodes :
             Publish(i, CallInfo(i, Ptr([StatusCode |-> status]), StatusErr(i, status)))
  /\ UNCHANGED <<inputs, assetCall, ctx, pc, reqData, errs, seatBid, notifier, madeErrs, collected,
                 parsed, origin, ctxFirst>>

\* The call results produced so far.
Results == responseChannel \o collected

\* The auction's ctx ends, by its deadline or by a cancel.
CtxDone ==
  /\ ctx = "live"
  /\ pc # "done"
  /\ ctx' \in { "deadline", "canceled" }
  /\ ctxFirst' = \A k \in 1 .. Len(Results) : Results[k].response = Nil
  /\ UNCHANGED <<inputs, assetCall, pc, reqData, errs, seatBid, responseChannel, task,
                 notifier, madeErrs, collected, parsed, origin>>

\* --------------------------------------------------- doTimeoutNotification
\* SendsNotification as it would be if errL were not looked at.
SendsNotificationDespiteErrs(toReq, errL) == toReq # Nil

\* Line 364: whether the task goes on to make the notification request.
SendsNotification(toReq, errL) == toReq # Nil /\ Len(errL) = 0

\* Lines 363-367: MakeTimeoutNotification gives toReq (nil or a request) and
\* errL; the task ends there unless toReq is there and errL is empty, and it
\* ends when http.NewRequest fails; else it goes on to the call.
MakeTimeoutNotification(i) ==
  /\ notifier[i].at = "spawned"
  /\ \E toReq \in { Nil, Ptr(i) }, k \in 0 .. MaxPluginErrs :
       \/ /\ ~SendsNotification(toReq, PluginErrs("MakeTimeoutNotification", i, k))
          /\ notifier' = [notifier EXCEPT ![i].at = "done", ![i].toReq = toReq,
                                           ![i].errL = k]
       \/ /\ SendsNotification(toReq, PluginErrs("MakeTimeoutNotification", i, k))
          /\ \E next \in { "done", "calling" } :
               notifier' = [notifier EXCEPT ![i].at = next, ![i].toReq = toReq,
                                            ![i].errL = k]
  /\ UNCHANGED <<inputs, assetCall, ctx, pc, reqData, errs, seatBid, responseChannel, task,
                 madeErrs, collected, parsed, origin, ctxFirst>>

\* NotifyEnds as it would be if the call were made under the auction's ctx.
NotifyEndsUnderCtx(c) ==
  IF c # "live" THEN { "ctx" } ELSE { "response", "error", "deadline" }

\* Lines 361 and 368: the ways the notification call ends, c being the
\* auction's ctx. The call is made under a context of its own, of 200 ms
\* from context.Background(): it ends with a response, with an error or by
\* that context's deadline, whatever c is.
NotifyEnds(c) == { "response", "error", "deadline" }

\* Line 368: the notification call returns and its result is dropped.
NotifyDo(i) ==
  /\ notifier[i].at = "calling"
  /\ \E end \in NotifyEnds(ctx) :
       notifier' = [notifier EXCEPT ![i].at = "done", ![i].calls = @ + 1,
                                    ![i].end = end]
  /\ UNCHANGED <<inputs, assetCall, ctx, pc, reqData, errs, seatBid, responseChannel, task,
                 madeErrs, collected, parsed, origin, ctxFirst>>

\* ------------------------------------------------------------ the collector
\* makeExt: the trace of one call result (texts are held by the index of
\* the request they belong to, 0 when left out).
makeExt(httpInfo) ==
  IF httpInfo.err = Nil
    THEN [Uri |-> httpInfo.request, RequestBody |-> httpInfo.request,
          ResponseBody |-> httpInfo.request,
          Status |-> Deref(httpInfo.response).StatusCode]
  ELSE IF httpInfo.request = 0
    THEN [Uri |-> 0, RequestBody |-> 0, ResponseBody |-> 0, Status |-> 0]
  ELSE [Uri |-> httpInfo.request, RequestBody |-> httpInfo.request,
        ResponseBody |-> 0, Status |-> 0]

\* CaptureDebug as it would be if any non-zero Test turned the traces on.
CaptureDebugNonZero(test, httpCalls, httpInfo) ==
  IF test # 0 THEN Append(httpCalls, makeExt(httpInfo)) ELSE httpCalls

\* Lines 133-135: seatBid.httpCalls after one call result.
CaptureDebug(test, httpCalls, httpInfo) ==
  IF test = 1 THEN Append(httpCalls, makeExt(httpInfo)) ELSE httpCalls

\* Lines 169-176: the bid after addNativeTypes returned markup for it.
WithMarkup(b, markup) ==
  IF markup # Nil
    THEN [b EXCEPT !.Bid = Ptr([Deref(b.Bid) EXCEPT !.AdM = Marshal(Deref(markup))])]
    ELSE b

\* One iteration's outcome put before the outcome of the iterations after it.
ConsBid(b, moreErrs, rest) ==
  [bids |-> <<b>> \o rest.bids, errs |-> moreErrs \o rest.errs, panic |-> rest.panic]

RECURSIVE Enrich(_, _)
\* Lines 166-176: the iteration for a native bid, r being what addNativeTypes
\* did: a panic ends the loop, else the bid takes the markup and the loop
\* goes on.
EnrichOne(bids, req, r) ==
  IF r.panic
    THEN [bids |-> bids, errs |-> <<>>, panic |-> TRUE]
    ELSE ConsBid(WithMarkup(Head(bids), r.markup), r.errs, Enrich(Tail(bids), req))

\* Lines 163-179: the loop that enriches the native bids of a mobile-app
\* request: the bids after it, the errors it appended, and whether an
\* addNativeTypes call panicked (the loop ends there).
Enrich(bids, req) ==
  IF bids = <<>> THEN [bids |-> <<>>, errs |-> <<>>, panic |-> FALSE]
  ELSE IF Head(bids).BidType = "native"
    THEN EnrichOne(bids, req, addNativeTypes(Head(bids).Bid, req))
  ELSE ConsBid(Head(bids), <<>>, Enrich(Tail(bids), req))

\* Line 185: the price of a bid that is kept.
AdjustPrice(price, adj, rate) == price * adj * rate

RECURSIVE Materialize(_, _, _)
\* Lines 183-193: the pbsOrtbBids appended for one bidResponse.
Materialize(bids, adj, rate) ==
  IF bids = <<>> THEN <<>>
  ELSE <<[bid |-> IF Head(bids).Bid # Nil
                    THEN Ptr([Deref(Head(bids).Bid) EXCEPT
                                !.Price = AdjustPrice(@, adj, rate)])
                    ELSE Nil,
          bidType |-> Head(bids).BidType]>>
         \o Materialize(Tail(bids), adj, rate)

\* Lines 143-145: the currency the bidder answered in.
ResponseCurrency(currency) ==
  IF currency = "" THEN defaultCurrency ELSE currency

\* DefaultCur as it would be if the default replaced any list.
DefaultCurAlways(cur) == <<defaultCurrency>>

\* Lines 146-148: request.Cur as the result's handling leaves it.
DefaultCur(cur) ==
  IF Len(cur) = 0 THEN <<defaultCurrency>> ELSE cur

\* Lines 157-197, found being what the loop over request.Cur left and
\* enriched what the enrichment left: a panic in the enrichment ends the run
\* before any bid is kept; else the bids are kept when a rate was found and
\* the conversion error is appended when none was.
Normalized(req1, sb, es, adj, found, enriched) ==
  [request |-> req1,
   panic |-> enriched.panic,
   errs |-> IF enriched.panic \/ found.err = Nil
              THEN es \o enriched.errs
              ELSE Append(es \o enriched.errs, Deref(found.err)),
   seatBid |-> [sb EXCEPT
                  !.currency = found.currency,
                  !.bids = IF ~enriched.panic /\ found.err = Nil
                             THEN @ \o Materialize(enriched.bids, adj,
                                                   found.conversionRate)
                             ELSE @],
   added |-> IF ~enriched.panic /\ found.err = Nil THEN Len(enriched.bids) ELSE 0]

\* Lines 141-198: the handling of a non-nil bidResponse: the request, the
\* seat-bid and errs after it, whether it panicked, and how many bids it
\* appended.
Normalize(req, sb, es, bidResponse, adj, conv) ==
  Normalized([req EXCEPT !.Cur = DefaultCur(req.Cur)], sb, es, adj,
             RateLoop(conv, ResponseCurrency(bidResponse.Currency),
                      DefaultCur(req.Cur),
                      [conversionRate |-> 0, err |-> Nil, currency |-> sb.currency]),
             IF req.App
               THEN Enrich(bidResponse.Bids, [req EXCEPT !.Cur = DefaultCur(req.Cur)])
               ELSE [bids |-> bidResponse.Bids, errs |-> <<>>, panic |-> FALSE])

\* The history entries of the bids one bidResponse had appended: the request
\* it answers, the place in MakeBids' list, the price and the currency the
\* bidder gave.
Origins(i, bidResponse, added) ==
  [k \in 1 .. added |->
     [src |-> i, idx |-> k,
      price |-> IF bidResponse.Bids[k].Bid # Nil
                  THEN Deref(bidResponse.Bids[k].Bid).Price ELSE 0,
      cur |-> ResponseCurrency(bidResponse.Currency)]]

\* The seat-bid after lines 133-135 for the call result just received.
Traced(httpInfo) ==
  [Deref(seatBid) EXCEPT !.httpCalls = CaptureDebug(request.Test, @, httpInfo)]

\* AfterResult as it would be if the first failed call ended the collecting.
AfterResultStopOnError(failed) ==
  IF failed \/ Len(collected) + 1 = reqData THEN "done" ELSE "collect"

\* AfterResult as it would be if the loop ran one iteration more.
AfterResultOneMore(failed) ==
  IF Len(collected) = reqData THEN "done" ELSE "collect"

\* Where requestBid is after a call result's handling, failed telling
\* whether the result carried an error: line 204 returns after the last of
\* the len(reqData) results (lines 130 and 200-204).
AfterResult(failed) == IF Len(collected) + 1 = reqData THEN "done" ELSE "collect"

\* AppendErrs as it would be if the new errors were put first.
PrependErrs(es, moreErrs) == moreErrs \o es

\* Line 139: errs = append(errs, moreErrs...)
AppendErrs(es, moreErrs) == es \o moreErrs

\* The state after a non-nil bidResponse for request i, that MakeBids gave
\* with k errors, was handled with the outcome out.
Handled(i, bidResponse, k, out) ==
  /\ parsed' = Append(parsed, [src |-> i, resp |-> Ptr(bidResponse), nerrs |-> k,
                               nall |-> Len(out.errs) - Len(errs)])
  /\ errs' = out.errs
  /\ seatBid' = Ptr(out.seatBid)
  /\ request' = out.request
  /\ origin' = origin \o Origins(i, bidResponse, out.added)
  /\ pc' = IF out.panic THEN "panic" ELSE AfterResult(FALSE)

\* Lines 130-204: one iteration of the collecting loop, from the receive to
\* the end of the result's handling, and the return after the last one.
Collect ==
  /\ pc = "collect"
  /\ responseChannel # <<>>
  /\ responseChannel' = Tail(responseChannel)
  /\ collected' = Append(collected, Head(responseChannel))
  /\ \/ /\ Head(responseChannel).err # Nil
        /\ errs' = Append(errs, Deref(Head(responseChannel).err))
        /\ seatBid' = Ptr(Traced(Head(responseChannel)))
        /\ pc' = AfterResult(TRUE)
        /\ UNCHANGED <<request, parsed, origin>>
     \/ /\ Head(responseChannel).err = Nil
        /\ \E k \in 0 .. MaxPluginErrs :
             \/ /\ parsed' = Append(parsed, [src |-> Head(responseChannel).request,
                                             resp |-> Nil, nerrs |-> k, nall |-> k])
                /\ errs' = AppendErrs(errs, PluginErrs("MakeBids",
                                                       Head(responseChannel).request, k))
                /\ seatBid' = Ptr(Traced(Head(responseChannel)))
                /\ pc' = AfterResult(FALSE)
                /\ UNCHANGED <<request, origin>>
             \/ \E bidResponse \in BidderResponses :
                  Handled(Head(responseChannel).request, bidResponse, k,
                          Normalize(request, Traced(Head(responseChannel)),
                                    AppendErrs(errs,
                                               PluginErrs("MakeBids",
                                                          Head(responseChannel).request, k)),
                                    bidResponse, bidAdjustment, conversions))
  /\ UNCHANGED <<bidAdjustment, conversions, timeoutBidder, assetCall, ctx,
                 reqData, task, notifier, madeErrs, ctxFirst>>

\* ------------------------------------------------------------ specification
Next ==
  \/ MakeRequests
  \/ CallDoRequest
  \/ GoDoRequest
  \/ NewSeatBid
  \/ \E i \in Reqs : NewRequest(i)
  \/ \E i \in Reqs : Do(i)
  \/ \E i \in Reqs : ReadAll(i)
  \/ CtxDone
  \/ \E i \in Reqs : MakeTimeoutNotification(i)
  \/ \E i \in Reqs : NotifyDo(i)
  \/ Collect

Spec == Init /\ [][Next]_vars

\* The steps of requestBid's own task: lines 98-126 and the collecting loop.
Collector ==
  \/ MakeRequests
  \/ CallDoRequest
  \/ GoDoRequest
  \/ NewSeatBid
  \/ Collect

\* Fair scheduling of requestBid's task and of the dispatch tasks, with every
\* HTTP call that was made coming to an end (lines 315 and 334 return). No
\* fairness is stated for the doTimeoutNotification tasks nor for the end
\* of ctx: neither has to happen.
Fairness ==
  /\ WF_vars(Collector)
  /\ \A i \in Reqs : WF_vars(NewRequest(i)) /\ WF_vars(Do(i)) /\ WF_vars(ReadAll(i))

FairSpec == Spec /\ Fairness

\* --------------------------------------------------- setAssetTypes alone
\* The assets of a native response that setAssetTypes is given: with an
\* Img or not, with a Data or not, their Type not set yet.
ResponseAssets ==
  { Asset(id, img, data) : id \in { 1, 2 }, img \in { Nil, Ptr(0) }, data \in { Nil, Ptr(0) } }

\* The assets of a native request: with an Img or not, with a Data or not,
\* their Type zero or not.
RequestAssets ==
  { Asset(id, img, data) :
      id \in { 1, 2 }, img \in { Nil, Ptr(0), Ptr(3) }, data \in { Nil, Ptr(0), Ptr(2) } }

\* A call of setAssetTypes(asset, nativePayload) about to be made; requestBid
\* itself has not begun and takes no step.
AssetInit ==
  /\ assetCall \in [at : { "call" }, asset : ResponseAssets,
                     payload : SeqsUpTo(RequestAssets, MaxAssets),
                     out : { Asset(0, Nil, Nil) }, err : { Nil }]
  /\ request = [Test |-> 0, App |-> TRUE, Cur |-> <<>>, Imp |-> <<>>]
  /\ bidAdjustment = 1
  /\ conversions \in RateTables
  /\ timeoutBidder = FALSE
  /\ ctx = "live"
  /\ pc = "start"
  /\ reqData = 0
  /\ errs = <<>>
  /\ seatBid = Nil
  /\ responseChannel = <<>>
  /\ task = [i \in Reqs |-> "idle"]
  /\ notifier = [i \in Reqs |-> NoNotifier]
  /\ madeErrs = <<>>
  /\ collected = <<>>
  /\ parsed = <<>>
  /\ origin = <<>>
  /\ ctxFirst = FALSE

\* Lines 235-264: the call returns, out being the asset as the call left
\* what its Img and Data point to, err what it returned.
SetAssetTypes ==
  /\ assetCall.at = "call"
  /\ assetCall' = [assetCall EXCEPT
                     !.at = "returned",
                     !.out = setAssetTypes(assetCall.asset, assetCall.payload).asset,
                     !.err = setAssetTypes(assetCall.asset, assetCall.payload).err]
  /\ UNCHANGED <<inputs, ctx, pc, reqData, errs, seatBid, responseChannel, task,
                 notifier, madeErrs, collected, parsed, origin, ctxFirst>>

AssetNext == SetAssetTypes

AssetSpec == AssetInit /\ [][AssetNext]_vars

\* ------------------------------------------------------------------ claims
Range(q) == { q[k] : k \in 1 .. Len(q) }

\* The places in q of the call results for request i.
ResultsOf(q, i) == { k \in 1 .. Len(q) : q[k].request = i }

\* The places in Results of the call results classified as Timeout.
TimeoutResults ==
  { k \in 1 .. Len(Results) :
      Results[k].err # Nil /\ Deref(Results[k].err).kind = "Timeout" }

\* The requests a doTimeoutNotification task was started for.
Spawned == { i \in Reqs : notifier[i].at # "none" }

\* Whether some currency of request.Cur has a rate from the currency from.
RateExists(from) ==
  \E j \in 1 .. Len(DefaultCur(request.Cur)) :
    <<from, DefaultCur(request.Cur)[j]>> \in DOMAIN conversions

\* C1: when MakeRequests gave at least one outbound request, requestBid
\* returns a non-nil seat-bid, whatever the HTTP calls did and whatever
\* errors MakeRequests gave besides.
C1_SeatBidNonNil ==
  (pc = "done" /\ reqData >= 1) => seatBid # Nil

\* A run that returned after every call failed, MakeRequests having given
\* errors too: the seat-bid is there and holds no bid.
C1_Witness ==
  /\ pc = "done"
  /\ reqData >= 2
  /\ madeErrs # <<>>
  /\ \A k \in 1 .. Len(collected) : collected[k].err # Nil
  /\ seatBid # Nil
  /\ Deref(seatBid).bids = <<>>

\* C2: when MakeRequests gave no outbound request, requestBid returns a nil
\* seat-bid and a non-empty error list (the plugin's errors if it gave any,
\* else the one FailedToRequestBids error), with no call dispatched and no
\* MakeBids call; and a nil seat-bid is returned in no other case.
C2_NoRequests ==
  /\ (pc = "done" /\ reqData = 0) =>
       /\ seatBid = Nil
       /\ Len(errs) >= 1
       /\ errs = IF madeErrs # <<>> THEN madeErrs
                 ELSE <<Err("FailedToRequestBids", 0, 0)>>
       /\ \A i \in Reqs : task[i] = "idle" /\ notifier[i].at = "none"
       /\ Results = <<>>
       /\ parsed = <<>>
  /\ (pc = "done" /\ seatBid = Nil) => reqData = 0

\* A run that returned with the synthesized error only.
C2_Witness ==
  /\ pc = "done"
  /\ reqData = 0
  /\ madeErrs = <<>>
  /\ seatBid = Nil
  /\ Len(errs) = 1

\* C3: on return every bid's price is its original price times
\* bidAdjustment times the rate from the currency its bidder reported to
\* the seat-bid's final currency.
C3_PriceInFinalCurrency ==
  (pc = "done" /\ seatBid # Nil) =>
    \A k \in 1 .. Len(Deref(seatBid).bids) :
      Deref(seatBid).bids[k].bid # Nil =>
        /\ <<origin[k].cur, Deref(seatBid).currency>> \in DOMAIN conversions
        /\ Deref(Deref(seatBid).bids[k].bid).Price =
             origin[k].price * bidAdjustment
               * conversions[<<origin[k].cur, Deref(seatBid).currency>>]

\* C4: in every state, the seat-bid's currency is "USD" or a code of
\* request.Cur, never a bidder's currency that request.Cur lacks.
C4_CurrencyAcceptable ==
  seatBid # Nil =>
    Deref(seatBid).currency \in { defaultCurrency } \cup Range(request.Cur)

\* The seat-bid's currency has left "USD" after a bidder answered in a
\* currency that request.Cur lacks.
C4_Witness ==
  /\ seatBid # Nil
  /\ Deref(seatBid).currency # defaultCurrency
  /\ \E k \in 1 .. Len(origin) : origin[k].cur \notin Range(request.Cur)

\* C5: the seat-bid holds one trace per call result collected when
\* request.Test is 1 and none for any other Test, whether the calls
\* succeeded or failed: on return, len(reqData) traces or none.
C5_HttpCalls ==
  /\ seatBid # Nil =>
       Len(Deref(seatBid).httpCalls) =
         IF request.Test = 1 THEN Len(collected) ELSE 0
  /\ (pc = "done" /\ reqData >= 1) =>
       Len(Deref(seatBid).httpCalls) = IF request.Test = 1 THEN reqData ELSE 0

\* A test run that returned two traces, one of a failed call and one of a
\* call that succeeded.
C5_Witness ==
  /\ pc = "done"
  /\ request.Test = 1
  /\ seatBid # Nil
  /\ Len(Deref(seatBid).httpCalls) = 2
  /\ \E k \in 1 .. Len(collected) : collected[k].err # Nil
  /\ \E k \in 1 .. Len(collected) : collected[k].err = Nil

\* C6: as many notifier tasks are started as call results are classified
\* Timeout when the plugin is a TimeoutBidder, and none when it is not; a
\* task is started only for a request whose result is a Timeout.
C6_NotifierIffTimeout ==
  /\ Cardinality(Spawned) =
       IF timeoutBidder THEN Cardinality(TimeoutResults) ELSE 0
  /\ \A i \in Spawned : \E k \in TimeoutResults : Results[k].request = i

\* Two calls timed out and a notifier task runs for each.
C6_Witness ==
  /\ timeoutBidder
  /\ Cardinality(TimeoutResults) = 2
  /\ Cardinality(Spawned) = 2

\* C7 as claimed: when ctx ended before any response was read, requestBid
\* returns no bid and as many errors as there are outbound requests.
C7_ErrsEqualOutbound ==
  (pc = "done" /\ reqData >= 1 /\ ctxFirst) =>
    /\ Len(Deref(seatBid).bids) = 0
    /\ Len(errs) = reqData

\* C7 as amended: when ctx ended before any response was read, requestBid
\* returns no bid and as many errors as MakeRequests returned plus one per
\* outbound request.
C7_ErrsMadePlusOutbound ==
  (pc = "done" /\ reqData >= 1 /\ ctxFirst) =>
    /\ Len(Deref(seatBid).bids) = 0
    /\ Len(errs) = Len(madeErrs) + reqData

\* A run of two requests that returned after ctx was cancelled first,
\* MakeRequests having given an error too.
C7_Witness ==
  /\ pc = "done"
  /\ reqData >= 2
  /\ ctxFirst
  /\ ctx = "canceled"
  /\ madeErrs # <<>>
  /\ \E k \in 1 .. Len(collected) :
       collected[k].err # Nil /\ Deref(collected[k].err).kind = "Canceled"

\* C8: with two or more requests, on return every request has its result
\* collected; a failed call has exactly one entry in errs (its error) and
\* no bid, and a call that succeeded has every bid of its bidResponse in
\* the seat-bid when a rate exists, whatever the other calls did.
C8_PartialFailure ==
  (pc = "done" /\ reqData >= 2) =>
    \A i \in 1 .. reqData :
      \E k \in ResultsOf(collected, i) :
        /\ collected[k].err # Nil =>
             /\ { j \in 1 .. Len(errs) : errs[j].src = i }
                  = { j \in 1 .. Len(errs) : errs[j] = Deref(collected[k].err) }
             /\ Cardinality({ j \in 1 .. Len(errs) : errs[j].src = i }) = 1
             /\ \A b \in 1 .. Len(origin) : origin[b].src # i
        /\ collected[k].err = Nil =>
             \E p \in 1 .. Len(parsed) :
               /\ parsed[p].src = i
               /\ ( /\ parsed[p].resp # Nil
                    /\ RateExists(ResponseCurrency(Deref(parsed[p].resp).Currency)) )
                  => \A x \in 1 .. Len(Deref(parsed[p].resp).Bids) :
                       \E b \in 1 .. Len(Deref(seatBid).bids) :
                         /\ b <= Len(origin)
                         /\ origin[b].src = i
                         /\ origin[b].idx = x
                         /\ Deref(seatBid).bids[b].bidType
                              = Deref(parsed[p].resp).Bids[x].BidType
                         /\ (Deref(seatBid).bids[b].bid = Nil)
                              <=> (Deref(parsed[p].resp).Bids[x].Bid = Nil)

\* A run that returned the bid of the call collected first although the
\* call collected after it failed.
C8_Witness ==
  /\ pc = "done"
  /\ reqData >= 2
  /\ collected[1].err = Nil
  /\ collected[2].err # Nil
  /\ Len(Deref(seatBid).bids) >= 1

\* C9: every request yields exactly one call result (none before its task
\* has sent, one after), the collector returns only after it received
\* len(reqData) results, and it never waits for one more.
C9_ExactlyOnePerRequest ==
  /\ \A i \in Reqs :
       Cardinality(ResultsOf(Results, i)) = IF task[i] = "sent" THEN 1 ELSE 0
  /\ Len(collected) <= reqData
  /\ pc = "collect" => Len(collected) < reqData
  /\ (pc = "done" /\ reqData >= 1) =>
       /\ Len(collected) = reqData
       /\ responseChannel = <<>>
       /\ \A i \in 1 .. reqData : task[i] = "sent"

\* A run that returned after collecting the second request's result first.
C9_Witness ==
  /\ pc = "done"
  /\ reqData >= 2
  /\ collected[1].request = 2
  /\ collected[2].request = 1

\* C10: a call that is in the send or in the read of the body once the
\* deadline of ctx has passed ends as a call result classified Timeout.
C10_InFlightEndsTimeout ==
  [][ \A i \in Reqs :
        (ctx = "deadline" /\ task[i] \in { "do", "read" } /\ task'[i] = "sent")
          => Deref(responseChannel'[Len(responseChannel')].err).kind = "Timeout" ]_vars

\* C11: under fair scheduling of requestBid's task and of the dispatch
\* tasks, every HTTP call coming to an end, every dispatched task ends up
\* having sent its result and requestBid ends up returning, with no step of
\* a notifier task needed for it.
C11_Terminates ==
  /\ \A i \in Reqs : (task[i] = "new") ~> (task[i] = "sent")
  /\ <>(pc = "done")

\* The errors the step appended to errs.
NewErrs == SubSeq(errs', Len(errs) + 1, Len(errs'))

\* The entry the step appended to parsed.
NewParsed == parsed'[Len(parsed')]

\* The step is the handling of a call result that MakeBids parsed into a
\* bidResponse, and it ran to its end.
HandledResponse ==
  /\ Len(parsed') = Len(parsed) + 1
  /\ NewParsed.resp # Nil
  /\ pc' # "panic"

\* The places in cur of the codes that have a rate from the currency from.
Hits(from, cur) == { j \in 1 .. Len(cur) : <<from, cur[j]>> \in DOMAIN conversions }

\* What C12 says of a step that handled n bids answered in the currency
\* from, cur being the request's list.
C12_Resolved(from, cur, n) ==
  IF Hits(from, cur) # {}
    THEN /\ Deref(seatBid').currency
              = cur[CHOOSE j \in Hits(from, cur) : \A h \in Hits(from, cur) : j <= h]
         /\ \A k \in 1 .. Len(NewErrs) : NewErrs[k].kind # "Conversion"
         /\ Len(Deref(seatBid').bids) = Len(Deref(seatBid).bids) + n
    ELSE /\ Cardinality({ k \in 1 .. Len(NewErrs) : NewErrs[k].kind = "Conversion" }) = 1
         /\ NewErrs[Len(NewErrs)].kind = "Conversion"
         /\ NewErrs[Len(NewErrs)].cur = cur[Len(cur)]
         /\ Deref(seatBid').bids = Deref(seatBid).bids
         /\ Deref(seatBid').currency = Deref(seatBid).currency

\* C12: the handling of a parsed response, when it runs to its end, sets
\* the seat-bid's currency to the first code of request.Cur (of "USD" when
\* that is empty) that has a rate from the bidder's currency, adds no
\* conversion error and keeps every bid; when no code has a rate it appends
\* exactly one conversion error, that of the last code, as the last error,
\* adds no bid and leaves the seat-bid's currency as it was.
C12_FirstCodeWithRate ==
  [][ HandledResponse =>
        C12_Resolved(ResponseCurrency(Deref(NewParsed.resp).Currency),
                     DefaultCur(request.Cur), Len(Deref(NewParsed.resp).Bids)) ]_vars

\* A run that returned after one response found no rate for either code of
\* request.Cur (its error names the last code) and another was resolved to
\* the second code, the first having no rate.
C12_Witness ==
  /\ pc = "done"
  /\ request.Cur = <<"EUR", "GBP">>
  /\ \E k \in 1 .. Len(errs) : errs[k].kind = "Conversion" /\ errs[k].cur = "GBP"
  /\ seatBid # Nil
  /\ Deref(seatBid).currency = "GBP"
  /\ Len(origin) >= 1
  /\ origin[1].cur = "GBP"

\* The kinds of the errors addNativeTypes returns.
EnrichmentErrs ==
  { "CouldNotFindNativeImp", "NativeRequestParse", "UnableToFindAsset",
    "ImageAssetNotInRequest", "DataAssetNotInRequest" }

\* C13: the handling of a parsed response for which no code of request.Cur
\* has a rate performs no native enrichment: run to its end, it has appended
\* no error of the enrichment, only MakeBids' errors and the conversion
\* error.
C13_NoEnrichmentWithoutRate ==
  [][ ( /\ HandledResponse
        /\ Hits(ResponseCurrency(Deref(NewParsed.resp).Currency),
                DefaultCur(request.Cur)) = {} )
      => \A k \in 1 .. Len(NewErrs) : NewErrs[k].kind \notin EnrichmentErrs ]_vars

\* The places in parsed of the MakeBids calls for request i.
ParsedOf(i) == { p \in 1 .. Len(parsed) : parsed[p].src = i }

\* C14: a collected call result whose err is set was not passed to MakeBids
\* and has exactly one entry in errs, its err, and no bid, also when it
\* carries a response; a collected result whose err is nil was passed to
\* MakeBids exactly once; and the results passed to MakeBids are exactly
\* those with a response of status in [200, 400).
C14_ErrorBranch ==
  \A k \in 1 .. Len(collected) :
    /\ collected[k].err # Nil =>
         /\ ParsedOf(collected[k].request) = {}
         /\ { j \in 1 .. Len(errs) : errs[j].src = collected[k].request }
              = { j \in 1 .. Len(errs) : errs[j] = Deref(collected[k].err) }
         /\ Cardinality({ j \in 1 .. Len(errs) : errs[j].src = collected[k].request }) = 1
         /\ \A b \in 1 .. Len(origin) : origin[b].src # collected[k].request
    /\ collected[k].err = Nil => Cardinality(ParsedOf(collected[k].request)) = 1
    /\ ParsedOf(collected[k].request) # {}
         <=> /\ collected[k].response # Nil
             /\ Deref(collected[k].response).StatusCode >= 200
             /\ Deref(collected[k].response).StatusCode < 400

\* A run that returned after collecting a result with both a response (of
\* status 199) and an error, and a result of status 200 that MakeBids
\* parsed into a response with a bid.
C14_Witness ==
  /\ pc = "done"
  /\ Len(collected) = 2
  /\ collected[1].err # Nil
  /\ collected[1].response # Nil
  /\ Deref(collected[1].response).StatusCode = 199
  /\ collected[2].err = Nil
  /\ Len(parsed) = 1
  /\ Len(origin) = 1

\* What C15 says of a step that handled the bidResponse br: every entry is
\* appended, with its type, a nil Bid staying nil.
C15_Appended(br) ==
  /\ pc' # "panic"
  /\ Len(Deref(seatBid').bids) = Len(Deref(seatBid).bids) + Len(br.Bids)
  /\ \A x \in 1 .. Len(br.Bids) :
       /\ Deref(seatBid').bids[Len(Deref(seatBid).bids) + x].bidType = br.Bids[x].BidType
       /\ (Deref(seatBid').bids[Len(Deref(seatBid).bids) + x].bid = Nil)
            <=> (br.Bids[x].Bid = Nil)

\* C15: the handling of a parsed response for which a rate was found
\* appends every entry of it to the seat-bid's bids, an entry with a nil
\* Bid too, whatever the request (mobile-app or not) and the bid's type,
\* and never aborts the run.
C15_NilBidAppended ==
  [][ ( /\ Len(parsed') = Len(parsed) + 1
        /\ NewParsed.resp # Nil
        /\ Hits(ResponseCurrency(Deref(NewParsed.resp).Currency),
                DefaultCur(request.Cur)) # {} )
      => C15_Appended(Deref(NewParsed.resp)) ]_vars

\* A step of a dispatch task or of a notifier task.
TaskStep ==
  \E i \in Reqs :
    NewRequest(i) \/ Do(i) \/ ReadAll(i) \/ MakeTimeoutNotification(i) \/ NotifyDo(i)

\* C16: the channel never holds more than len(reqData) values and has room
\* whenever a dispatch task has its send still to do, so no send ever
\* blocks, however late the collector receives; and no step of a dispatch
\* task or of a notifier task changes errs or seatBid.
C16_SendNeverBlocks ==
  /\ [](/\ Len(responseChannel) <= reqData
        /\ \A i \in Reqs :
             task[i] \in { "new", "do", "read" }
               => Len(responseChannel) < Capacity(reqData))
  /\ [][ TaskStep => (errs' = errs /\ seatBid' = seatBid) ]_vars

\* Both tasks have sent before the collector received anything: the channel
\* is full.
C16_Witness ==
  /\ reqData = 2
  /\ Len(responseChannel) = 2
  /\ \A i \in 1 .. 2 : task[i] = "sent"
  /\ collected = <<>>
  /\ pc = "collect"

\* C17: no step changes the request's Test, App or Imp, and a step changes
\* its Cur only from the empty list and only to ["USD"]; so on every path
\* the request requestBid returns with is the one it was called with, but
\* for an empty Cur that may have become ["USD"].
C17_RequestFrame ==
  [][ /\ request'.Test = request.Test
      /\ request'.App = request.App
      /\ request'.Imp = request.Imp
      /\ request'.Cur # request.Cur
           => (request.Cur = <<>> /\ request'.Cur = <<"USD">>) ]_vars

\* A run that returned with the request's Cur set to ["USD"], which no
\* request is called with here: it was empty and a response was handled.
C17_Witness ==
  /\ pc = "done"
  /\ request.Cur = <<"USD">>
  /\ <<"USD">> \notin CurLists
  /\ \E p \in 1 .. Len(parsed) : parsed[p].resp # Nil

\* A step of a notifier task.
NotifierStep == \E i \in Reqs : MakeTimeoutNotification(i) \/ NotifyDo(i)

\* C18: a notifier task makes at most one HTTP call, and makes it only when
\* MakeTimeoutNotification gave a request and no error; its call never ends
\* by the auction's ctx; and no step of it sends on the channel, changes
\* errs or seatBid, or starts a notifier task.
C18_NotifierIsolated ==
  /\ [](\A i \in Reqs :
          /\ notifier[i].calls <= 1
          /\ (notifier[i].calls = 1 \/ notifier[i].at = "calling")
               => (notifier[i].toReq # Nil /\ notifier[i].errL = 0)
          /\ notifier[i].end \in { "", "response", "error", "deadline" })
  /\ [][ NotifierStep =>
          /\ responseChannel' = responseChannel
          /\ errs' = errs
          /\ seatBid' = seatBid
          /\ Spawned' = Spawned ]_vars

\* requestBid has returned after two timeouts; one notifier task made its
\* call, which was answered although the auction's ctx had ended, and the
\* other made none, MakeTimeoutNotification having given a request and an
\* error.
C18_Witness ==
  /\ pc = "done"
  /\ ctx = "deadline"
  /\ \E i, j \in Reqs :
       /\ notifier[i].at = "done"
       /\ notifier[i].calls = 1
       /\ notifier[i].end = "response"
       /\ notifier[j].at = "done"
       /\ notifier[j].calls = 0
       /\ notifier[j].toReq # Nil
       /\ notifier[j].errL = 1

\* C19: setAssetTypes gives the Data of a response asset the Type of the
\* Data of the request asset with its ID when that Type is not zero,
\* whether the asset has an Img too or not and whatever the Img rule did;
\* and it leaves an asset with neither Img nor Data as it is, with no error.
C19_DataTypeCopied ==
  assetCall.at = "returned" =>
    /\ ( /\ assetCall.asset.Data # Nil
         /\ getAssetByID(assetCall.asset.ID, assetCall.payload).err = Nil
         /\ getAssetByID(assetCall.asset.ID, assetCall.payload).asset.Data
              \notin { Nil, Ptr(0) } )
       => assetCall.out.Data
            = getAssetByID(assetCall.asset.ID, assetCall.payload).asset.Data
    /\ (assetCall.asset.Img = Nil /\ assetCall.asset.Data = Nil)
       => (assetCall.out = assetCall.asset /\ assetCall.err = Nil)

\* The place in parsed of the MakeBids call for the call result collected
\* k-th (its err being nil): as many as the results before it and it have a
\* nil err.
ParsedAt(k) == Cardinality({ j \in 1 .. k : collected[j].err = Nil })

\* The errors the handling of the call result collected k-th appended.
ErrCount(k) ==
  IF collected[k].err # Nil THEN 1 ELSE parsed[ParsedAt(k)].nall

RECURSIVE ErrsBefore(_)
\* The errors in errs before those of the call result collected k-th.
ErrsBefore(k) ==
  IF k = 1 THEN Len(madeErrs) ELSE ErrsBefore(k - 1) + ErrCount(k - 1)

\* The place in collected of the call result for request i.
CollectedAt(i) == CHOOSE k \in 1 .. Len(collected) : collected[k].request = i

\* The errors of the call result collected k-th are seg: the call's error,
\* or MakeBids' errors in its order and then the errors of the response's
\* handling.
C20_ErrsOf(k, seg) ==
  IF collected[k].err # Nil
    THEN seg = <<Deref(collected[k].err)>>
    ELSE /\ Len(seg) >= parsed[ParsedAt(k)].nerrs
         /\ SubSeq(seg, 1, parsed[ParsedAt(k)].nerrs)
              = PluginErrs("MakeBids", collected[k].request, parsed[ParsedAt(k)].nerrs)
         /\ \A j \in (parsed[ParsedAt(k)].nerrs + 1) .. Len(seg) :
              seg[j].kind \in EnrichmentErrs \cup { "Conversion" }

====
